---- MODULE Spec2Model ----
(***************************************************************************)
(* Model of the ContentForge backend (src/main.py): the generation         *)
(* endpoint (validation, heuristic composer, best-effort persistence),     *)
(* the recent-items listing and the database probe.                        *)
(*                                                                         *)
(* Text is modelled at the character level: a Python str is a sequence of  *)
(* one-character strings.  The two non-ASCII characters of the templates   *)
(* are single sequence elements: "emdash" stands for U+2014 and "bullet"   *)
(* for U+2022 (each has len() = 1 in Python).                              *)
(* creativity, a float, is held in hundredths (0.6 is 60).                 *)
(***************************************************************************)
EXTENDS Integers, Sequences, FiniteSets, TLC

VARIABLES pc, payload, i, outputs, text, store, outcome, writes, response

vars ==
    <<pc, payload, i, outputs, text, store, outcome, writes, response>>

(* ------------------------------ bounds --------------------------------- *)
MaxPromptWords ==
    21

MaxSeedDocs ==
    2

MaxStore ==
    3

MaxLimit ==
    4

MaxCollections ==
    11

(* ------------------------- string literals ----------------------------- *)
Professional ==
    <<"P","r","o","f","e","s","s","i","o","n","a","l">>

Playful ==
    <<"P","l","a","y","f","u","l">>

Formal ==
    <<"F","o","r","m","a","l">>

Casual ==
    <<"C","a","s","u","a","l">>

Sarcastic ==
    <<"S","a","r","c","a","s","t","i","c">>

Positive ==
    <<"P","o","s","i","t","i","v","e">>

Neutral ==
    <<"N","e","u","t","r","a","l">>

Urgent ==
    <<"U","r","g","e","n","t">>

Bored ==
    <<"B","o","r","e","d">>

Short ==
    <<"S","h","o","r","t">>

Medium ==
    <<"M","e","d","i","u","m">>

Long ==
    <<"L","o","n","g">>

Tiny ==
    <<"T","i","n","y">>

PolishedAndConcise ==
    <<"P","o","l","i","s","h","e","d"," ","a","n","d"," ","c","o","n","c","i","s","e",".">>

LightAndWitty ==
    <<"L","i","g","h","t"," ","a","n","d"," ","w","i","t","t","y",".">>

RespectfulAndStructured ==
    <<"R","e","s","p","e","c","t","f","u","l"," ","a","n","d"," ","s","t","r","u","c","t","u","r","e","d",".">>

FriendlyAndDirect ==
    <<"F","r","i","e","n","d","l","y"," ","a","n","d"," ","d","i","r","e","c","t",".">>

ConfidentAndClear ==
    <<"C","o","n","f","i","d","e","n","t"," ","a","n","d"," ","c","l","e","a","r",".">>

EmphasizeBenefits ==
    <<"E","m","p","h","a","s","i","z","e"," ","b","e","n","e","f","i","t","s"," ","a","n","d"," ","m","o","m","e","n","t","u","m",".">>

StayInformative ==
    <<"S","t","a","y"," ","i","n","f","o","r","m","a","t","i","v","e"," ","a","n","d"," ","b","a","l","a","n","c","e","d",".">>

UseActionForward ==
    <<"U","s","e"," ","a","c","t","i","o","n","-","f","o","r","w","a","r","d"," ","p","h","r","a","s","i","n","g",".">>

StayHelpful ==
    <<"S","t","a","y"," ","h","e","l","p","f","u","l",".">>

Placeholder ==
    <<"Y","o","u","r"," ","p","r","o","d","u","c","t"," ","o","r"," ","i","d","e","a">>

CoreTail ==
    <<" ","emdash"," ","c","r","a","f","t","e","d"," ","w","i","t","h"," ","C","o","n","t","e","n","t","F","o","r","g","e"," ","t","o"," ","h","e","l","p"," ","y","o","u"," ","m","o","v","e"," ","f","a","s","t","e","r",".">>

BulletSep ==
    <<" ","bullet"," ">>

CallToAction ==
    <<" ","T","a","k","e"," ","t","h","e"," ","n","e","x","t"," ","s","t","e","p"," ","t","o","d","a","y">>

LearnMore ==
    <<"L","e","a","r","n"," ","m","o","r","e",".">>

DiscoverWhy ==
    <<"D","i","s","c","o","v","e","r"," ","w","h","y",".">>

BuiltForTeams ==
    <<"B","u","i","l","t"," ","f","o","r"," ","t","e","a","m","s",".">>

Effortless ==
    <<"E","f","f","o","r","t","l","e","s","s",".">>

Reliable ==
    <<"R","e","l","i","a","b","l","e",".">>

Untitled ==
    <<"U","n","t","i","t","l","e","d">>

ProductLaunchTweet ==
    <<"P","r","o","d","u","c","t"," ","L","a","u","n","c","h"," ","T","w","e","e","t">>

FeatureUpdateEmail ==
    <<"F","e","a","t","u","r","e"," ","U","p","d","a","t","e"," ","E","m","a","i","l">>

SEOBlogOutline ==
    <<"S","E","O"," ","B","l","o","g"," ","O","u","t","l","i","n","e">>

PromptBlank ==
    <<" ","\t"," ">>

PromptLaunch ==
    <<"L","a","u","n","c","h">>

PromptPadded ==
    <<" "," ","h","i"," ","t","h","e","r","e"," ">>

NoDb ==
    <<"n","o","-","d","b">>

MockPrefix ==
    <<"m","o","c","k","-">>

(* --------------------------- str operations ---------------------------- *)
Min2(a, b) ==
    IF a < b THEN a ELSE b

Max2(a, b) ==
    IF a > b THEN a ELSE b

\* Python seq[:k]: a negative k counts from the end
PySlice(s, k) ==
    IF k >= 0 THEN SubSeq(s, 1, Min2(k, Len(s)))
    ELSE SubSeq(s, 1, Max2(0, Len(s) + k))

IsSpace(c) ==
    c \in {" ", "\t", "\n"}

\* str.strip(): drop leading and trailing whitespace
Strip(s) ==
    LET keep == {k \in 1..Len(s) : ~IsSpace(s[k])}
    IN  IF keep = {} THEN <<>>
        ELSE SubSeq(s, CHOOSE k \in keep : \A m \in keep : k <= m,
                       CHOOSE k \in keep : \A m \in keep : k >= m)

\* len(s.split()): the number of maximal runs of non-whitespace
WordCount(s) ==
    Cardinality({k \in 1..Len(s) :
                   ~IsSpace(s[k]) /\ (k = 1 \/ IsSpace(s[k - 1]))})

RECURSIVE Join(_, _)
\* sep.join(list)
Join(sep, list) ==
    IF list = <<>> THEN <<>>
    ELSE IF Len(list) = 1 THEN list[1]
    ELSE list[1] \o sep \o Join(sep, Tail(list))

\* str(n) for a small non-negative integer
IntStr(n) ==
    LET d == <<"0","1","2","3","4","5","6","7","8","9">>
    IN  IF n < 10 THEN <<d[n + 1]>>
        ELSE <<d[(n \div 10) + 1], d[(n % 10) + 1]>>

StartsWith(s, p) ==
    Len(p) <= Len(s) /\ SubSeq(s, 1, Len(p)) = p

EndsWith(s, p) ==
    Len(p) <= Len(s) /\ SubSeq(s, Len(s) - Len(p) + 1, Len(s)) = p

Contains(s, p) ==
    \E k \in 0..(Len(s) - Len(p)) : SubSeq(s, k + 1, k + Len(p)) = p

(* --------------------------- the composer ------------------------------ *)
\* variant: the default phrase is the Professional one
tone_voice_default_professional(tone) ==
    CASE tone = Playful -> LightAndWitty
      [] tone = Formal  -> RespectfulAndStructured
      [] tone = Casual  -> FriendlyAndDirect
      [] OTHER          -> PolishedAndConcise

tone_voice(tone) ==
    CASE tone = Professional -> PolishedAndConcise
      [] tone = Playful      -> LightAndWitty
      [] tone = Formal       -> RespectfulAndStructured
      [] tone = Casual       -> FriendlyAndDirect
      [] OTHER               -> ConfidentAndClear

sentiment_hint(sentiment) ==
    CASE sentiment = Positive -> EmphasizeBenefits
      [] sentiment = Neutral  -> StayInformative
      [] sentiment = Urgent   -> UseActionForward
      [] OTHER                -> StayHelpful

\* <<min_len, max_len>>
length_map(length) ==
    CASE length = Short  -> <<18, 26>>
      [] length = Medium -> <<40, 60>>
      [] length = Long   -> <<80, 120>>
      [] OTHER           -> <<40, 60>>

min_len(p) ==
    length_map(p.length)[1]

max_len(p) ==
    length_map(p.length)[2]

\* variant: the prompt is not stripped
base_unstripped(prompt) ==
    IF prompt = <<>> THEN Placeholder ELSE prompt

base(prompt) ==
    IF Strip(prompt) = <<>> THEN Placeholder ELSE Strip(prompt)

guide(p) ==
    p.tone \o BulletSep \o p.sentiment \o BulletSep \o p.length \o <<".", " ">>
      \o tone_voice(p.tone) \o <<" ">> \o sentiment_hint(p.sentiment)

core(p) ==
    base(p.prompt) \o CoreTail

\* variant: the sentiment is not looked at
exclaim_creativity_only(p) ==
    IF p.creativity > 60 THEN <<"!">> ELSE <<".">>

exclaim(p) ==
    IF p.sentiment = Urgent \/ p.creativity > 60 THEN <<"!">> ELSE <<".">>

suffix(p) ==
    IF p.sentiment = Urgent THEN CallToAction ELSE <<>>

\* text as assembled at line 119
assemble(p) ==
    core(p) \o <<" ">> \o guide(p) \o exclaim(p) \o suffix(p)

Fillers ==
    <<LearnMore, DiscoverWhy, BuiltForTeams, Effortless, Reliable>>

\* variant: one filler phrase too many
pad_off_by_one(t, minlen) ==
    IF WordCount(t) < minlen
    THEN t \o <<" ">> \o Join(<<" ">>, PySlice(Fillers, Max2(0, minlen - WordCount(t) + 1)))
    ELSE t

\* the padding step, lines 121-122
pad(t, minlen) ==
    IF WordCount(t) < minlen
    THEN t \o <<" ">> \o Join(<<" ">>, PySlice(Fillers, Max2(0, minlen - WordCount(t))))
    ELSE t

\* text[: max_len * 2]
truncate(t, maxlen) ==
    PySlice(t, maxlen * 2)

\* variant: the loop bound taken inclusively
range_has_next_inclusive(k, n) ==
    k <= n

range_has_next(k, n) ==
    k < n

(* ------------------------- request validation -------------------------- *)
\* Field(0.35, ge=0.0, le=1.0) and Field(1, ge=1, le=5)
creativity_ok(c) ==
    0 <= c /\ c <= 100

\* variant: the upper limit le=5 left out
variants_ok_no_upper(v) ==
    1 <= v

variants_ok(v) ==
    1 <= v /\ v <= 5

GenerateRequest(p) ==
    creativity_ok(p.creativity) /\ variants_ok(p.variants)

(* ----------------------------- the store ------------------------------- *)
\* A stored document keeps the fields this service reads back
\* (_id, prompt, created_at); created_at is a typed value.
Datetime(n) ==
    [type |-> "datetime", v |-> IntStr(n)]

NoneValue ==
    [type |-> "NoneType", v |-> <<>>]

StrValue(s) ==
    [type |-> "str", v |-> s]

\* truthiness of a value as tested by `if d.get('created_at')`
Truthy(x) ==
    x.type # "NoneType" /\ ~(x.type = "str" /\ x.v = <<>>)

\* create_document: the store assigns the id and the creation time and
\* keeps its documents newest first
create_document(st, p) ==
    <<[_id |-> IntStr(Len(st) + 1), prompt |-> StrValue(p.prompt),
       created_at |-> Datetime(Len(st) + 1)]>> \o st

\* get_recent_documents(collection, limit): up to limit documents, newest first
get_recent_documents(st, limit) ==
    SubSeq(st, 1, Min2(limit, Len(st)))

\* one dict of the items list, lines 157-161; only called when the
\* projection does not raise
project(d) ==
    [id |-> d._id,
     prompt |-> IF d.prompt.type = "missing" THEN Untitled ELSE d.prompt.v,
     created_at |-> IF Truthy(d.created_at)
                    THEN StrValue(<<"T">> \o d.created_at.v)
                    ELSE NoneValue]

\* .isoformat() exists on datetime values only
project_raises(d) ==
    Truthy(d.created_at) /\ d.created_at.type # "datetime"

fallback_items ==
    [k \in 1..3 |->
        [id |-> MockPrefix \o IntStr(k),
         prompt |-> <<ProductLaunchTweet, FeatureUpdateEmail, SEOBlogOutline>>[k],
         created_at |-> NoneValue]]

RECURSIVE project_loop_keeps_items(_, _)
\* variant: the fallback list is appended to the items built so far
project_loop_keeps_items(items, docs) ==
    IF docs = <<>> THEN items
    ELSE IF project_raises(Head(docs)) THEN items \o fallback_items
    ELSE project_loop_keeps_items(Append(items, project(Head(docs))), Tail(docs))

RECURSIVE project_loop_prepends(_, _)
\* variant: each item is inserted at the front of the list
project_loop_prepends(items, docs) ==
    IF docs = <<>> THEN items
    ELSE IF project_raises(Head(docs)) THEN fallback_items
    ELSE project_loop_prepends(<<project(Head(docs))>> \o items, Tail(docs))

RECURSIVE project_loop(_, _)
\* the for loop of lines 156-161 inside the try: the items built so far are
\* replaced by the fallback list as soon as one projection raises
project_loop(items, docs) ==
    IF docs = <<>> THEN items
    ELSE IF project_raises(Head(docs)) THEN fallback_items
    ELSE project_loop(Append(items, project(Head(docs))), Tail(docs))

recent_items(st, limit, o) ==
    IF o = "raise" THEN fallback_items
    ELSE project_loop(<<>>, get_recent_documents(st, limit))

(* -------------------------- the database probe ------------------------- *)
\* "set" status of an environment variable, lines 65-66
env_status(v) ==
    IF Truthy(v) THEN "Set" ELSE "Not Set"

\* the database status string: a fixed part and the str(e)[:50] part
db_status(status, e) ==
    [status |-> status, detail |-> PySlice(e, 50)]

initial_response ==
    [backend |-> "Running", database |-> db_status("Not Available", <<>>),
     database_url |-> "None", database_name |-> "None",
     connection_status |-> "Not Connected", collections |-> <<>>]

\* the try block, lines 38-61
probe_db(r, db) ==
    CASE db.state = "import_error" ->
           [r EXCEPT !.database = db_status("Database module not found", <<>>)]
      [] db.state = "import_raises" ->
           [r EXCEPT !.database = db_status("Error", db.msg)]
      [] db.state = "none" ->
           [r EXCEPT !.database = db_status("Available but not initialized", <<>>)]
      [] db.state = "ok" ->
           [r EXCEPT !.database = db_status("Connected & Working", <<>>),
                     !.database_url = "Configured",
                     !.database_name = IF db.has_name THEN db.name ELSE "Connected",
                     !.connection_status = "Connected",
                     !.collections = PySlice(db.collections, 10)]
      [] db.state = "list_raises" ->
           [r EXCEPT !.database = db_status("Connected but Error", db.msg),
                     !.database_url = "Configured",
                     !.database_name = IF db.has_name THEN db.name ELSE "Connected",
                     !.connection_status = "Connected"]

probe_env(r, url, name) ==
    [r EXCEPT !.database_url = env_status(url),
              !.database_name = env_status(name)]

\* variant: the environment is read before the try block
test_database_env_first(db, url, name) ==
    probe_db(probe_env(initial_response, url, name), db)

test_database(db, url, name) ==
    probe_env(probe_db(initial_response, db), url, name)

(* ------------------------------ inputs --------------------------------- *)
\* a prompt of n one-letter words
WordsPrompt(n) ==
    [k \in 1..(2 * n - 1) |-> IF k % 2 = 1 THEN "a" ELSE " "]

Prompts ==
    {<<>>, PromptLaunch}

Tones ==
    {Professional, Sarcastic}

Sentiments ==
    {Urgent, Bored}

Lengths ==
    {Short, Long, Tiny}

\* hundredths: the limits 0.0 and 1.0 and their outer neighbours
Creativities ==
    {-1, 0, 35, 61, 100, 101}

MaxVariantsTried ==
    6

Requests ==
    [prompt : Prompts, tone : Tones, sentiment : Sentiments, length : Lengths,
     creativity : Creativities, variants : 0..MaxVariantsTried]

ComposePrompts ==
    {<<>>, PromptBlank, PromptLaunch, PromptPadded}
      \cup {WordsPrompt(n) : n \in 1..MaxPromptWords}

ComposeRequests ==
    [prompt : ComposePrompts,
     tone : {Professional, Playful, Sarcastic, <<>>},
     sentiment : {Positive, Urgent, Bored},
     length : {Short, Medium, Long, Tiny},
     creativity : {0, 60, 61, 100},
     variants : 1..5]

\* documents already in the collection when the service starts: a regular
\* one, one without prompt and creation time, and one whose created_at was
\* written as a string
SeedKinds ==
    {"regular", "bare", "string_time"}

SeedDoc(kind, n) ==
    [_id |-> IntStr(n),
     prompt |-> IF kind = "bare" THEN [type |-> "missing", v |-> <<>>]
                ELSE StrValue(PromptLaunch),
     created_at |-> CASE kind = "regular" -> Datetime(n)
                      [] kind = "bare" -> NoneValue
                      [] kind = "string_time" -> StrValue(<<"2","0","2","4">>)]

SeedStores ==
    UNION {{[k \in 1..n |-> SeedDoc(kinds[k], n - k + 1)] : kinds \in [1..n -> SeedKinds]}
             : n \in 0..MaxSeedDocs}

MaxErrLen ==
    51

ErrMsgs ==
    {[k \in 1..n |-> "e"] : n \in {0, 50, MaxErrLen}}

DbStates ==
    {[state |-> "import_error", has_name |-> FALSE, name |-> "", collections |-> <<>>, msg |-> <<>>],
     [state |-> "none", has_name |-> FALSE, name |-> "", collections |-> <<>>, msg |-> <<>>]}
    \cup [state : {"import_raises"}, has_name : {FALSE}, name : {""},
          collections : {<<>>}, msg : ErrMsgs]
    \cup [state : {"ok"}, has_name : BOOLEAN, name : {"forge"},
          collections : {[k \in 1..n |-> IntStr(k)] : n \in 0..MaxCollections},
          msg : {<<>>}]
    \cup [state : {"list_raises"}, has_name : BOOLEAN, name : {"forge"},
          collections : {<<>>}, msg : ErrMsgs]

EnvValues ==
    {NoneValue, StrValue(<<>>), StrValue(<<"x">>)}

(* ------------------------------ the state ------------------------------ *)
NoRequest ==
    [op |-> "none"]

NoResponse ==
    [status |-> "none"]

Idle(st) ==
    /\ pc = "idle"
    /\ payload = NoRequest
    /\ i = 0
    /\ outputs = <<>>
    /\ text = <<>>
    /\ store = st
    /\ outcome = "none"
    /\ writes = 0
    /\ response = NoResponse

Init ==
    \E st \in SeedStores : Idle(st)

(* ------------------------- POST /api/generate -------------------------- *)
\* the framework validates the body against GenerateRequest before the
\* handler runs; a failure is answered with 422
Receive(p) ==
    /\ pc = "idle"
    /\ payload' = [op |-> "generate", body |-> p]
    /\ IF GenerateRequest(p)
       THEN /\ pc' = "compose"
            /\ response' = response
       ELSE /\ pc' = "respond"
            /\ response' = [status |-> "422"]
    /\ UNCHANGED <<i, outputs, text, store, outcome, writes>>

\* one iteration of `for i in range(payload.variants)`, lines 113-123
Iterate ==
    /\ pc = "compose"
    /\ range_has_next(i, payload.body.variants)
    /\ text' = pad(assemble(payload.body), min_len(payload.body))
    /\ outputs' = Append(outputs, truncate(text', max_len(payload.body)))
    /\ i' = i + 1
    /\ UNCHANGED <<pc, payload, store, outcome, writes, response>>

ExitLoop ==
    /\ pc = "compose"
    /\ ~range_has_next(i, payload.body.variants)
    /\ pc' = "persist"
    /\ UNCHANGED <<payload, i, outputs, text, store, outcome, writes, response>>

generate_response(id, outs) ==
    [status |-> "200", id |-> id, outputs |-> outs]

\* variant: the except branch answers without the composed outputs
on_write_failure_drops_outputs(outs) ==
    generate_response(NoDb, <<>>)

\* the except branch, lines 138-140
on_write_failure(outs) ==
    generate_response(NoDb, outs)

\* lines 126-142; outcome is what the store does with the single call:
\* "ok", "raise" (create_document raises) or "no_call" (building the
\* document raises before create_document is reached)
Persist(o) ==
    /\ pc = "persist"
    /\ pc' = "respond"
    /\ outcome' = o
    /\ IF o = "ok"
       THEN /\ Len(store) < MaxStore
            /\ store' = create_document(store, payload.body)
            /\ writes' = writes + 1
            /\ response' = generate_response(store'[1]._id, outputs)
       ELSE /\ store' = store
            /\ writes' = IF o = "raise" THEN writes + 1 ELSE writes
            /\ response' = on_write_failure(outputs)
    /\ UNCHANGED <<payload, i, outputs, text>>

(* --------------------------- GET /api/recent --------------------------- *)
Recent(limit, o) ==
    /\ pc = "idle"
    /\ pc' = "respond"
    /\ payload' = [op |-> "recent", limit |-> limit]
    /\ outcome' = o
    /\ response' = [status |-> "200", items |-> recent_items(store, limit, o)]
    /\ UNCHANGED <<i, outputs, text, store, writes>>

(* ------------------------------ GET /test ------------------------------ *)
TestDatabase(db, url, name) ==
    /\ pc = "idle"
    /\ pc' = "respond"
    /\ payload' = [op |-> "test", db |-> db, url |-> url, name |-> name]
    /\ response' = [status |-> "200", body |-> test_database(db, url, name)]
    /\ UNCHANGED <<i, outputs, text, store, outcome, writes>>

\* the response is sent; the request-scoped state is dropped
Return ==
    /\ pc = "respond"
    /\ pc' = "idle"
    /\ payload' = NoRequest
    /\ i' = 0
    /\ outputs' = <<>>
    /\ text' = <<>>
    /\ outcome' = "none"
    /\ writes' = 0
    /\ response' = NoResponse
    /\ UNCHANGED store

Next ==
    \/ \E p \in Requests : Receive(p)
    \/ Iterate
    \/ ExitLoop
    \/ \E o \in {"ok", "raise", "no_call"} : Persist(o)
    \/ \E n \in 0..MaxLimit, o \in {"ok", "raise"} : Recent(n, o)
    \/ \E db \in DbStates, url \in EnvValues, name \in EnvValues :
          TestDatabase(db, url, name)
    \/ Return

Spec ==
    Init /\ [][Next]_vars

(* The composer alone: a validated request enters the loop of lines 113-123 *)
InitCompose ==
    /\ pc = "compose"
    /\ payload \in [op : {"generate"}, body : ComposeRequests]
    /\ i = 0
    /\ outputs = <<>>
    /\ text = <<>>
    /\ store = <<>>
    /\ outcome = "none"
    /\ writes = 0
    /\ response = NoResponse

NextCompose ==
    \/ Iterate
    \/ ExitLoop

SpecCompose ==
    InitCompose /\ [][NextCompose]_vars

(* ------------------------------ properties ----------------------------- *)
Generating ==
    payload.op = "generate"

Responded(op) ==
    pc = "respond" /\ payload.op = op

\* C1: a valid generation request is answered with exactly `variants`
\* outputs, whatever the store did with the write
C1_OutputsLength ==
    (Responded("generate")
       /\ payload.body.creativity \in 0..100 /\ payload.body.variants \in 1..5)
    => /\ response.status = "200"
       /\ outcome \in {"ok", "raise", "no_call"}
       /\ Len(response.outputs) = payload.body.variants

C1_Witness ==
    /\ Responded("generate")
    /\ outcome = "raise"
    /\ response.status = "200"
    /\ Len(response.outputs) = 5

\* C2: a request with creativity outside [0,1] or variants outside [1,5] is
\* answered with a validation failure; the composer never runs and no
\* store write is attempted
C2_InvalidRejected ==
    (Generating
       /\ (payload.body.creativity < 0 \/ payload.body.creativity > 100
             \/ payload.body.variants < 1 \/ payload.body.variants > 5))
    => /\ pc = "respond"
       /\ response.status = "422"
       /\ i = 0 /\ outputs = <<>> /\ text = <<>>
       /\ writes = 0 /\ outcome = "none"

C2_Witness ==
    /\ Responded("generate")
    /\ response.status = "422"
    /\ payload.body.variants = 6
    /\ payload.body.creativity = 35

\* C3: when the single store write fails the request still succeeds with
\* the id "no-db" and the composed outputs, and create_document is called
\* at most once per request
C3_FailOpen ==
    /\ writes <= 1
    /\ (Responded("generate") /\ outcome \in {"raise", "no_call"})
       => /\ response.status = "200"
          /\ response.id = NoDb
          /\ response.outputs = outputs
          /\ Len(response.outputs) = payload.body.variants
          /\ \A k \in 1..Len(outputs) :
                outputs[k] = truncate(pad(assemble(payload.body), min_len(payload.body)),
                                      max_len(payload.body))
          /\ writes = (IF outcome = "raise" THEN 1 ELSE 0)

C3_Witness ==
    /\ Responded("generate")
    /\ outcome = "raise"
    /\ writes = 1
    /\ response.id = NoDb
    /\ Len(response.outputs) >= 2

\* the read failed: the call raised, or one of the delivered documents has a
\* created_at that is a non-empty string (no isoformat)
ReadFailed ==
    \/ outcome = "raise"
    \/ \E k \in 1..Len(store) :
          /\ k <= payload.limit
          /\ store[k].created_at.type = "str"
          /\ store[k].created_at.v # <<>>

\* C4: when reading recent documents fails, the listing is exactly the
\* three items mock-1, mock-2, mock-3, without creation time, and without
\* any item projected before the failure
C4_Fallback ==
    (Responded("recent") /\ ReadFailed)
    => /\ response.status = "200"
       /\ Len(response.items) = 3
       /\ \A k \in 1..3 :
             /\ response.items[k].id = MockPrefix \o <<(<<"1", "2", "3">>)[k]>>
             /\ response.items[k].created_at = NoneValue

C4_Witness ==
    /\ Responded("recent")
    /\ outcome = "ok"
    /\ payload.limit = 2
    /\ Len(store) >= 2
    /\ store[1].created_at.type = "datetime"
    /\ store[2].created_at.type = "str"
    /\ Len(response.items) = 3

\* C5 as stated: the listing has at most N items for every store outcome
C5_AtMostLimit ==
    Responded("recent") => Len(response.items) <= payload.limit

\* C5 amended: a successful read lists the documents the store delivered,
\* one item each and in the delivered order, so at most N; a failed read
\* lists the three fallback items whatever N is
C5_AtMostLimitOnSuccess ==
    Responded("recent")
    => IF ReadFailed
       THEN Len(response.items) = 3
       ELSE /\ Len(response.items) <= payload.limit
            /\ Len(response.items) = Min2(payload.limit, Len(store))
            /\ \A k \in 1..Len(response.items) :
                  response.items[k].id = store[k]._id

C5_Witness ==
    /\ Responded("recent")
    /\ ~ReadFailed
    /\ payload.limit = 2
    /\ Len(store) = 3
    /\ Len(response.items) = 2

\* C8: the probe always answers with its six fields; database_url and
\* database_name follow the environment variable alone, whatever the
\* database state; collections has at most 10 names
C8_Probe ==
    Responded("test")
    => /\ response.status = "200"
       /\ DOMAIN response.body = {"backend", "database", "database_url",
                                  "database_name", "connection_status", "collections"}
       /\ response.body.database_url
            = (IF payload.url.type = "str" /\ payload.url.v # <<>> THEN "Set" ELSE "Not Set")
       /\ response.body.database_name
            = (IF payload.name.type = "str" /\ payload.name.v # <<>> THEN "Set" ELSE "Not Set")
       /\ Len(response.body.collections) <= 10
       /\ Len(response.body.database.detail) <= 50

C8_Witness ==
    /\ Responded("test")
    /\ payload.db.state = "ok"
    /\ payload.db.has_name
    /\ Len(payload.db.collections) = 11
    /\ Len(response.body.collections) = 10
    /\ payload.url = NoneValue
    /\ response.body.database_url = "Not Set"
    /\ response.body.database_name = "Set"

Body ==
    payload.body

Composed ==
    Generating /\ pc \in {"compose", "persist"} /\ i >= 1

ProfessionalUrgentShort ==
    Body.tone = Professional /\ Body.sentiment = Urgent /\ Body.length = Short

\* C6 as stated: for Professional / Urgent / Short every output ends with
\* "!" and contains the call-to-action suffix
C6_EndsWithBang ==
    (Composed /\ ProfessionalUrgentShort)
    => \A k \in 1..Len(outputs) :
          EndsWith(outputs[k], <<"!">>) /\ Contains(outputs[k], CallToAction)

\* C6 amended: for Professional / Urgent / Short the text assembled for a
\* variant ends with "!" followed by the call-to-action suffix, and every
\* output is the first 52 characters of that text, which end before the "!"
C6_BangThenSuffixBeforeTruncation ==
    (Composed /\ ProfessionalUrgentShort)
    => /\ EndsWith(text, <<"!">> \o CallToAction)
       /\ Len(text) - Len(<<"!">> \o CallToAction) >= 52
       /\ \A k \in 1..Len(outputs) :
             Len(outputs[k]) = 52 /\ StartsWith(text, outputs[k])

C6_Witness ==
    /\ Composed /\ ProfessionalUrgentShort
    /\ Body.creativity = 0
    /\ Body.prompt = PromptLaunch
    /\ Len(outputs) = 2
    /\ ~Contains(outputs[2], CallToAction)

UnknownToneAndSentiment ==
    /\ Body.tone \notin {Professional, Playful, Formal, Casual}
    /\ Body.sentiment \notin {Positive, Neutral, Urgent}

Punctuation ==
    IF Body.creativity > 60 THEN <<"!">> ELSE <<".">>

\* C7 as stated: for an unknown tone and sentiment every output contains
\* both default phrases, no call-to-action suffix, and "." (or "!" when
\* creativity > 0.6) after the guide
C7_DefaultsInOutput ==
    (Composed /\ UnknownToneAndSentiment)
    => \A k \in 1..Len(outputs) :
          /\ Contains(outputs[k], ConfidentAndClear)
          /\ Contains(outputs[k], StayHelpful \o Punctuation)
          /\ ~Contains(outputs[k], CallToAction)

\* C7 amended: for an unknown tone and sentiment the text of a variant
\* before truncation has the guide ending in both default phrases and "."
\* (or "!" when creativity > 0.6), followed by nothing but filler phrases;
\* every output is the first max_len * 2 characters of that text
C7_DefaultsBeforeTruncation ==
    (Composed /\ UnknownToneAndSentiment)
    => LET g == ConfidentAndClear \o <<" ">> \o StayHelpful \o Punctuation
           cap == 2 * (CASE Body.length = Short -> 26
                         [] Body.length = Long -> 120
                         [] OTHER -> 60)
       IN  /\ \/ EndsWith(text, g)
              \/ \E n \in 1..5 :
                    EndsWith(text, g \o <<" ">> \o Join(<<" ">>, SubSeq(Fillers, 1, n)))
           /\ ~Contains(text, CallToAction)
           /\ \A k \in 1..Len(outputs) :
                 /\ Len(outputs[k]) = Min2(cap, Len(text))
                 /\ StartsWith(text, outputs[k])

C7_Witness ==
    /\ Composed /\ UnknownToneAndSentiment
    /\ Body.tone = Sarcastic
    /\ Body.length = Short
    /\ Body.creativity = 61
    /\ Len(outputs) = 1
    /\ ~Contains(outputs[1], ConfidentAndClear)

BlankPrompt ==
    \A k \in 1..Len(Body.prompt) : Body.prompt[k] \in {" ", "\t", "\n"}

\* C9: for an empty or whitespace-only prompt every output is non-empty
\* and starts with the placeholder "Your product or idea", truncation
\* included
C9_Placeholder ==
    (Composed /\ BlankPrompt)
    => /\ StartsWith(text, Placeholder \o <<" ", "emdash">>)
       /\ \A k \in 1..Len(outputs) :
             outputs[k] # <<>> /\ StartsWith(outputs[k], Placeholder)

C9_Witness ==
    /\ Composed /\ BlankPrompt
    /\ Body.prompt = PromptBlank
    /\ Body.length = Short
    /\ Len(outputs) = 3
    /\ StartsWith(outputs[3], Placeholder)

\* words of the text assembled at line 119 and the target of the request
Deficit ==
    min_len(Body) - WordCount(assemble(Body))

\* the number of filler phrases the padding step appended
Appended ==
    IF text = assemble(Body) THEN 0
    ELSE CHOOSE n \in 1..6 :
           n = 6 \/ text = assemble(Body) \o <<" ">> \o Join(<<" ">>, SubSeq(Fillers, 1, n))

RECURSIVE Words(_)
Words(list) ==
    IF list = <<>> THEN 0 ELSE WordCount(Head(list)) + Words(Tail(list))

\* the least number of leading filler phrases that brings w words up to
\* the target, capped at the five phrases of the list
Needed ==
    IF \E n \in 0..5 : Words(SubSeq(Fillers, 1, n)) >= Deficit
    THEN CHOOSE n \in 0..5 :
           /\ Words(SubSeq(Fillers, 1, n)) >= Deficit
           /\ \A m \in 0..(n - 1) : Words(SubSeq(Fillers, 1, m)) < Deficit
    ELSE 5

\* C10 as stated: the padding appends the first min(5, min_len - w) filler
\* phrases, which is as many as are needed to bring the word count up to
\* min_len, capped at five
C10_AsManyAsNeeded ==
    Composed
    => /\ Appended = (IF Deficit <= 0 THEN 0 ELSE Min2(5, Deficit))
       /\ Appended = Needed

\* C10 amended: no filler when w >= min_len; otherwise exactly the first
\* min(5, min_len - w) filler phrases, in order: one phrase per missing word
C10_OnePhrasePerMissingWord ==
    Composed
    => IF Deficit <= 0
       THEN text = assemble(Body)
       ELSE text = assemble(Body) \o <<" ">>
                     \o Join(<<" ">>, SubSeq(Fillers, 1, Min2(5, Deficit)))

C10_Witness ==
    /\ Composed
    /\ Deficit = 2
    /\ Appended = 2
    /\ WordCount(text) = min_len(Body) + 2

====
